---- MODULE Spec2Model ----
(***************************************************************************)
(* Multi-provider AI gateway: AIModelFactory and the connectors of         *)
(* backend/api_connector.py, and the ModelManager session of               *)
(* backend/model_manager.py.                                               *)
(*                                                                         *)
(* Python values are modelled as follows.                                  *)
(*   - text: a sequence of one-character strings; a fixed message of the   *)
(*     code (an error text, a sentinel) is a text of one opaque token.     *)
(*   - dict: insertion-ordered, a sequence of [k, v] entries.              *)
(*   - a result dict ({"code":..,"error":..}): a function from field names.*)
(*   - None: the string "None" where a provider id is expected.            *)
(***************************************************************************)
EXTENDS Integers, Sequences, FiniteSets, TLC

VARIABLES api_keys, connectors, active_model, last, heap, made,
          response_text, extracted, exchange, saved, threads,
          model_dicts, integrations, ai_last

\* the variables of the AIIntegration front-end
front == <<model_dicts, integrations, ai_last>>

vars == <<api_keys, connectors, active_model, last, heap, made,
          response_text, extracted, exchange, saved, threads,
          model_dicts, integrations, ai_last>>

(* ------------------------------ bounds -------------------------------- *)

\* entries of a key file read by load_api_keys
MaxFile == 2
\* connectors built in one run of the factory specification
MaxMade == 2
\* parts (prose, fenced blocks) of a text given to the extraction
MaxParts == 3
\* AIIntegration objects constructed in one run
MaxInstances == 2

(* ------------------------------ inputs -------------------------------- *)

None == "None"

\* the closed set of provider ids, and one id outside it
KnownModels == {"model1", "model2", "model3", "model4", "model5"}
UnknownModel == "model9"
AllModels == KnownModels \cup {UnknownModel}

\* provider ids used in a session with capability calls
SessionModels == {"model1", "model2", UnknownModel}

\* provider ids used in a session of key and activation calls
KeyModels == {"model1", "model2", "model3", UnknownModel}

\* API keys; "" is the empty key
ApiKeys == {"", "k1", "k2"}

\* keys used in a session with capability calls, and found in key files
SessionKeys == {"", "k1"}

(* ------------------------- insertion-ordered dict --------------------- *)

DictKeys(d) == {d[i].k : i \in DOMAIN d}

DictHas(d, k) == k \in DictKeys(d)

DictGet(d, k) == d[CHOOSE i \in DOMAIN d : d[i].k = k].v

\* d[k] = v: an existing key keeps its position, a new key goes last
DictPut(d, k, v) ==
    IF DictHas(d, k)
    THEN [i \in DOMAIN d |-> IF d[i].k = k THEN [k |-> k, v |-> v] ELSE d[i]]
    ELSE Append(d, [k |-> k, v |-> v])

\* del d[k]
DictDel(d, k) == SelectSeq(d, LAMBDA e : e.k # k)

\* next(iter(d))
DictFirst(d) == d[1].k

(* -------------------------------- text -------------------------------- *)

\* the backtick character
BT == "BT"

WordChars == {"a", "j"}
SpaceChars == {" ", "\n"}

\* str.strip()
RECURSIVE LStrip(_)
LStrip(t) ==
    IF t # <<>> /\ Head(t) \in SpaceChars THEN LStrip(Tail(t)) ELSE t

RECURSIVE RStrip(_)
RStrip(t) ==
    IF t # <<>> /\ t[Len(t)] \in SpaceChars
    THEN RStrip(SubSeq(t, 1, Len(t) - 1))
    ELSE t

Strip(t) == RStrip(LStrip(t))

(* ---- the pattern BT BT BT (?:\w+)? \n (.+?) \n BT BT BT, re.DOTALL ---- *)

FenceAt(t, i) ==
    /\ i >= 1
    /\ i + 2 <= Len(t)
    /\ t[i] = BT /\ t[i + 1] = BT /\ t[i + 2] = BT

\* the first index at or after j that holds no word character
RECURSIVE WordRunEnd(_, _)
WordRunEnd(t, j) ==
    IF j <= Len(t) /\ t[j] \in WordChars THEN WordRunEnd(t, j + 1) ELSE j

\* the opener of a pattern without the language tag
OpenerAt_notag(t, i) ==
    IF ~FenceAt(t, i) THEN 0
    ELSE IF i + 3 <= Len(t) /\ t[i + 3] = "\n" THEN i + 4 ELSE 0

\* the index where the group starts when the opener matches at i, else 0
OpenerAt(t, i) ==
    IF ~FenceAt(t, i) THEN 0
    ELSE LET j == WordRunEnd(t, i + 3)
         IN IF j <= Len(t) /\ t[j] = "\n" THEN j + 1 ELSE 0

CloserAt(t, e) == e >= 1 /\ e <= Len(t) /\ t[e] = "\n" /\ FenceAt(t, e + 1)

NoMatch == [start |-> 0, s |-> 0, e |-> 0, next |-> 0]

\* the least element of a non-empty set of integers
MinOf(S) == CHOOSE x \in S : \A y \in S : x <= y

\* the closers that end a group starting at s: the group holds a character
ClosersAfter(t, s) == {e \in (s + 1)..Len(t) : CloserAt(t, e)}

\* the match of a greedy group (.+): the group ends at the last closer
MatchFrom_greedy(t, i, s) ==
    IF s = 0 \/ ClosersAfter(t, s) = {} THEN NoMatch
    ELSE LET e == CHOOSE x \in ClosersAfter(t, s) :
                      \A y \in ClosersAfter(t, s) : y <= x
         IN [start |-> i, s |-> s, e |-> e, next |-> e + 4]

\* the match whose group starts at s, for an opener at i: (.+?) is lazy, so
\* the group ends at the first closer
MatchFrom(t, i, s) ==
    IF s = 0 \/ ClosersAfter(t, s) = {} THEN NoMatch
    ELSE [start |-> i, s |-> s, e |-> MinOf(ClosersAfter(t, s)),
          next |-> MinOf(ClosersAfter(t, s)) + 4]

\* the match starting at i: group = t[s..e-1], the match ends before next
MatchAt(t, i) == MatchFrom(t, i, OpenerAt(t, i))

\* the positions at or after from where a match starts
MatchStarts(t, from) == {i \in from..Len(t) : MatchAt(t, i).start # 0}

\* the leftmost match starting at or after from
NextMatch(t, from) ==
    IF MatchStarts(t, from) = {} THEN NoMatch
    ELSE MatchAt(t, MinOf(MatchStarts(t, from)))

\* re.findall(pattern, content, re.DOTALL): the groups, left to right
RECURSIVE FindAllFrom(_, _)
FindAllFrom(t, from) ==
    LET m == NextMatch(t, from)
    IN IF m.start = 0 THEN <<>>
       ELSE <<SubSeq(t, m.s, m.e - 1)>> \o FindAllFrom(t, m.next)

re_findall(content) == FindAllFrom(content, 1)

\* re.sub(pattern, empty, content, flags=re.DOTALL): every match removed
RECURSIVE SubFrom(_, _)
SubFrom(t, from) ==
    LET m == NextMatch(t, from)
    IN IF m.start = 0 THEN SubSeq(t, from, Len(t))
       ELSE SubSeq(t, from, m.start - 1) \o SubFrom(t, m.next)

\* re.sub with count=1: the leftmost match removed
re_sub_first(content) ==
    IF NextMatch(content, 1).start = 0 THEN content
    ELSE SubSeq(content, 1, NextMatch(content, 1).start - 1)
         \o SubSeq(content, NextMatch(content, 1).next, Len(content))

re_sub(content) == SubFrom(content, 1)

\* the values lines 123-124 assign before the extraction
NoCodeFound == <<"// No code found in the response">>
NoExplanationFound == <<"No explanation found in the response">>

\* the extraction shared by the five connectors
CodeOf(content, code_blocks) ==
    IF code_blocks # <<>> THEN code_blocks[1] ELSE content

ExtractCode(content) ==
    [code |-> CodeOf(content, re_findall(content)),
     explanation |-> Strip(re_sub(content))]

(* ----------------------- Python call outcomes -------------------------- *)

\* a call that returned value v
Returned(v) == [raised |-> FALSE, exc |-> "", value |-> v]

\* a call that raised exception e
Raised(e) == [raised |-> TRUE, exc |-> e, value |-> <<>>]

(* ----------------------------- connectors ----------------------------- *)

\* APIConnector.__init__: the object numbered oid holds the key and the URL
APIConnector(cls, api_key, base_url, oid) ==
    [cls |-> cls, api_key |-> api_key, base_url |-> base_url, oid |-> oid]

DeepSeekConnector(api_key, oid) ==
    APIConnector("DeepSeekConnector", api_key,
                 [host |-> "api.deepseek.com", path |-> <<"v1">>], oid)

GeminiConnector(api_key, oid) ==
    APIConnector("GeminiConnector", api_key,
                 [host |-> "generativelanguage.googleapis.com", path |-> <<"v1">>], oid)

OpenAIConnector(api_key, oid) ==
    APIConnector("OpenAIConnector", api_key,
                 [host |-> "api.openai.com", path |-> <<"v1">>], oid)

GrokConnector(api_key, oid) ==
    APIConnector("GrokConnector", api_key,
                 [host |-> "api.grok.com", path |-> <<"v1">>], oid)

ClaudeConnector(api_key, oid) ==
    APIConnector("ClaudeConnector", api_key,
                 [host |-> "api.anthropic.com", path |-> <<"v1">>], oid)

\* create_connector with a cache: a connector built before for the provider
\* is handed out again
create_connector_cached(model_name, api_key) ==
    IF \E i \in DOMAIN made : made[i].model_name = model_name /\ ~made[i].out.raised
    THEN made[CHOOSE i \in DOMAIN made :
                 made[i].model_name = model_name /\ ~made[i].out.raised].out
    ELSE IF model_name = "model1" THEN Returned(DeepSeekConnector(api_key, heap + 1))
    ELSE IF model_name = "model2" THEN Returned(GeminiConnector(api_key, heap + 1))
    ELSE IF model_name = "model3" THEN Returned(OpenAIConnector(api_key, heap + 1))
    ELSE IF model_name = "model4" THEN Returned(GrokConnector(api_key, heap + 1))
    ELSE IF model_name = "model5" THEN Returned(ClaudeConnector(api_key, heap + 1))
    ELSE Raised("ValueError")

\* create_connector with a default branch: an id outside the closed set gets
\* a DeepSeek connector
create_connector_default(model_name, api_key) ==
    IF model_name = "model2" THEN Returned(GeminiConnector(api_key, heap + 1))
    ELSE IF model_name = "model3" THEN Returned(OpenAIConnector(api_key, heap + 1))
    ELSE IF model_name = "model4" THEN Returned(GrokConnector(api_key, heap + 1))
    ELSE IF model_name = "model5" THEN Returned(ClaudeConnector(api_key, heap + 1))
    ELSE Returned(DeepSeekConnector(api_key, heap + 1))

\* AIModelFactory.create_connector. heap counts the connector objects built
\* so far: a constructor call builds the object numbered heap + 1.
create_connector(model_name, api_key) ==
    IF model_name = "model1" THEN Returned(DeepSeekConnector(api_key, heap + 1))
    ELSE IF model_name = "model2" THEN Returned(GeminiConnector(api_key, heap + 1))
    ELSE IF model_name = "model3" THEN Returned(OpenAIConnector(api_key, heap + 1))
    ELSE IF model_name = "model4" THEN Returned(GrokConnector(api_key, heap + 1))
    ELSE IF model_name = "model5" THEN Returned(ClaudeConnector(api_key, heap + 1))
    ELSE Raised("ValueError")

\* What a session keeps of a connector. Connectors are never changed after
\* construction and ModelManager never compares their identities, so the
\* session is modelled as holding their fields and not their object numbers.
Held(c) == [cls |-> c.cls, api_key |-> c.api_key, base_url |-> c.base_url]

(* --------------------------- provider replies ------------------------- *)

\* What the remote end does with one request.
\*   net:  "ok" (2xx with a body), or the exception the request ends with
\*   body: the decoded JSON value: its Python type, whether "error" is in it,
\*         what the path to the generated text runs into, and the text
Reply(net, type, has_error, shape, content) ==
    [net |-> net, type |-> type, has_error |-> has_error,
     shape |-> shape, content |-> content]

\* transport error, timeout, non-2xx status (raise_for_status)
RequestExceptions == {"ConnectionError", "Timeout", "HTTPError"}

\* response.json() on a body that is no JSON raises JSONDecodeError, which is
\* a RequestException in requests >= 2.27 and a plain ValueError before
JsonErrors == {"JSONDecodeError(RequestException)", "JSONDecodeError(ValueError)"}

\* texts a provider generates: empty, prose only, a fenced block in prose
PlainText == <<"a", " ", "a">>
FencedText ==
    <<"a", ";", "\n", BT, BT, BT, "j", "\n", "a", ";", "\n", BT, BT, BT, "\n", "a">>
Contents == {<<>>, PlainText, FencedText}

Replies ==
    {Reply(n, "NoneType", FALSE, "", <<>>) : n \in RequestExceptions \cup JsonErrors}
    \cup {Reply("ok", "dict", FALSE, "text", c) : c \in Contents}
    \cup {Reply("ok", "dict", TRUE, "", <<>>),
          \* the keys on the path are missing: every .get() takes its default
          Reply("ok", "dict", FALSE, "missing", <<>>),
          \* "choices" / "candidates" / "content" is an empty list
          Reply("ok", "dict", FALSE, "empty", <<>>),
          \* a value on the path has the wrong type
          Reply("ok", "dict", FALSE, "wrongtype", <<>>),
          Reply("ok", "list", FALSE, "", <<>>),
          Reply("ok", "list", TRUE, "", <<>>),
          Reply("ok", "str", FALSE, "", <<>>),
          Reply("ok", "str", TRUE, "", <<>>),
          Reply("ok", "NoneType", FALSE, "", <<>>),
          Reply("ok", "int", FALSE, "", <<>>)}

\* the replies a session sees: a failed request, a provider error, a reply
\* with a fenced block, a reply without the expected keys, a body that is
\* no container
SessionReplies ==
    {Reply("Timeout", "NoneType", FALSE, "", <<>>),
     Reply("ok", "dict", TRUE, "", <<>>),
     Reply("ok", "dict", FALSE, "text", FencedText),
     Reply("ok", "dict", FALSE, "missing", <<>>),
     Reply("ok", "NoneType", FALSE, "", <<>>),
     Reply("ok", "str", TRUE, "", <<>>)}

(* ------------------------------ requests ------------------------------ *)

\* urljoin(base_url, endpoint) for a base URL without a trailing slash and a
\* relative endpoint: the last segment of the base path is replaced
urljoin(base_url, endpoint) ==
    [host |-> base_url.host,
     path |-> SubSeq(base_url.path, 1, Len(base_url.path) - 1) \o endpoint]

\* the dict _make_request returns for a RequestException
ErrorBody(e) ==
    [type |-> "dict", has_error |-> TRUE, shape |-> "", content |-> <<>>,
     d |-> [error |-> <<e>>]]

\* the decoded body of a reply
DecodedBody(reply) ==
    [type |-> reply.type, has_error |-> reply.has_error, shape |-> reply.shape,
     content |-> reply.content,
     d |-> IF reply.type = "dict" /\ reply.has_error
           THEN [error |-> <<"provider error">>]
           ELSE <<>>]

\* _make_request with one more attempt after a RequestException
_make_request_retry(self, method, endpoint, reply) ==
    [sent |-> IF reply.net \in RequestExceptions
              THEN <<[method |-> method, url |-> urljoin(self.base_url, endpoint),
                      timeout |-> 30],
                     [method |-> method, url |-> urljoin(self.base_url, endpoint),
                      timeout |-> 30]>>
              ELSE <<[method |-> method, url |-> urljoin(self.base_url, endpoint),
                      timeout |-> 30]>>,
     out |-> IF reply.net \in RequestExceptions
                \/ reply.net = "JSONDecodeError(RequestException)"
             THEN Returned(ErrorBody(reply.net))
             ELSE IF reply.net = "JSONDecodeError(ValueError)"
             THEN Raised("ValueError")
             ELSE Returned(DecodedBody(reply))]

\* APIConnector._make_request: one session.request(), then the decoded body
\* or {"error": str(e)} for a RequestException
_make_request(self, method, endpoint, reply) ==
    [sent |-> <<[method |-> method, url |-> urljoin(self.base_url, endpoint),
                 timeout |-> 30]>>,
     out |-> IF reply.net \in RequestExceptions
                \/ reply.net = "JSONDecodeError(RequestException)"
             THEN Returned(ErrorBody(reply.net))
             ELSE IF reply.net = "JSONDecodeError(ValueError)"
             THEN Raised("ValueError")
             ELSE Returned(DecodedBody(reply))]

\* the endpoint each connector posts to
Endpoint(self) ==
    CASE self.cls = "GeminiConnector" -> <<"models", "gemini-pro-code:generateContent">>
      [] self.cls = "ClaudeConnector" -> <<"messages">>
      [] OTHER -> <<"chat", "completions">>

ProcessingError(e) ==
    Returned([type |-> "dict", d |-> [error |-> <<"Failed to process response: ", e>>]])

\* generate_code after the request, with an except branch that falls back to
\* the defaults of lines 123-124
ProcessResponse_degrade(response) ==
    IF response.type \in {"NoneType", "int"} THEN Raised("TypeError")
    ELSE IF response.has_error
    THEN Returned([type |-> response.type, d |-> response.d])
    ELSE IF response.type # "dict" \/ response.shape \in {"empty", "wrongtype"}
    THEN Returned([type |-> "dict",
                   d |-> [code |-> NoCodeFound,
                          explanation |-> NoExplanationFound]])
    ELSE Returned([type |-> "dict",
                   d |-> ExtractCode(IF response.shape = "missing" THEN <<>>
                                     ELSE response.content)])

\* generate_code after the request: response is what _make_request returned
ProcessResponse(response) ==
    \* "error" in response: a TypeError on a value that is no container
    IF response.type \in {"NoneType", "int"} THEN Raised("TypeError")
    ELSE IF response.has_error
    THEN Returned([type |-> response.type, d |-> response.d])
    \* inside try: response.get(...)[0]....
    ELSE IF response.type # "dict" THEN ProcessingError("AttributeError")
    ELSE IF response.shape = "empty" THEN ProcessingError("IndexError")
    ELSE IF response.shape = "wrongtype" THEN ProcessingError("TypeError")
    ELSE Returned([type |-> "dict",
                   d |-> ExtractCode(IF response.shape = "missing" THEN <<>>
                                     ELSE response.content)])

AfterRequest(req) ==
    [sent |-> req.sent,
     out |-> IF req.out.raised THEN req.out ELSE ProcessResponse(req.out.value)]

\* <Provider>Connector.generate_code: the five bodies differ in the headers,
\* the request body and the path to the text, and share everything else
connector_generate_code(self, prompt, reply) ==
    AfterRequest(_make_request(self, "POST", Endpoint(self), reply))

(* ---------------------------- ModelManager ---------------------------- *)

\* a capability call that has not reached a connector
NotCalled == [raised |-> FALSE, exc |-> "", value |-> <<>>]

\* A manager is [api_keys, connectors, active_model].

\* ModelManager.__init__
NewManager == [api_keys |-> <<>>, connectors |-> <<>>, active_model |-> None]

\* set_api_key with a key, lines 45-54; built is what create_connector did
\* and keys is api_keys after line 42. Adopts the provider whatever is active.
StoreKey_adopt(self, model_name, keys, built) ==
    IF built.raised
    THEN [self |-> [self EXCEPT !.api_keys = keys], ret |-> FALSE]
    ELSE [self |-> [api_keys |-> keys,
                    connectors |->
                        DictPut(self.connectors, model_name, Held(built.value)),
                    active_model |-> model_name],
          ret |-> TRUE]

\* set_api_key with a key, lines 45-54, without the adoption of lines 50-52
StoreKey_noadopt(self, model_name, keys, built) ==
    IF built.raised
    THEN [self |-> [self EXCEPT !.api_keys = keys], ret |-> FALSE]
    ELSE [self |-> [api_keys |-> keys,
                    connectors |->
                        DictPut(self.connectors, model_name, Held(built.value)),
                    active_model |-> self.active_model],
          ret |-> TRUE]

\* set_api_key with a key, lines 45-54
StoreKey(self, model_name, keys, built) ==
    IF built.raised
    THEN [self |-> [self EXCEPT !.api_keys = keys], ret |-> FALSE]
    ELSE [self |-> [api_keys |-> keys,
                    connectors |->
                        DictPut(self.connectors, model_name, Held(built.value)),
                    active_model |->
                        IF self.active_model = None THEN model_name
                        ELSE self.active_model],
          ret |-> TRUE]

\* the active provider after a key is cleared, line 63, taking the connector
\* stored last
NextActive_last(conns) ==
    IF conns # <<>> THEN conns[Len(conns)].k ELSE None

\* the active provider after a key is cleared, line 63
NextActive(conns) ==
    IF conns # <<>> THEN DictFirst(conns) ELSE None

\* set_api_key with an empty key, lines 56-66, leaving active_model alone
ClearKey_stale(self, model_name, keys) ==
    [self |-> [api_keys |-> keys,
               connectors |-> DictDel(self.connectors, model_name),
               active_model |-> self.active_model],
     ret |-> TRUE]

\* set_api_key with an empty key, lines 56-66, keeping the connector
ClearKey_keep(self, model_name, keys) ==
    [self |-> [api_keys |-> keys,
               connectors |-> self.connectors,
               active_model |->
                   IF self.active_model = model_name
                   THEN NextActive(self.connectors)
                   ELSE self.active_model],
     ret |-> TRUE]

\* set_api_key with an empty key, lines 56-66, dropping the entry of api_keys
ClearKey_forget(self, model_name, keys) ==
    [self |-> [api_keys |-> DictDel(keys, model_name),
               connectors |-> DictDel(self.connectors, model_name),
               active_model |->
                   IF self.active_model = model_name
                   THEN NextActive(DictDel(self.connectors, model_name))
                   ELSE self.active_model],
     ret |-> TRUE]

\* set_api_key with an empty key, lines 56-66, reporting failure when there
\* was no connector to remove
ClearKey_strict(self, model_name, keys) ==
    [self |-> [api_keys |-> keys,
               connectors |-> DictDel(self.connectors, model_name),
               active_model |->
                   IF self.active_model = model_name
                   THEN NextActive(DictDel(self.connectors, model_name))
                   ELSE self.active_model],
     ret |-> DictHas(self.connectors, model_name)]

\* set_api_key with an empty key, lines 56-66
ClearKey(self, model_name, keys) ==
    [self |-> [api_keys |-> keys,
               connectors |-> DictDel(self.connectors, model_name),
               active_model |->
                   IF self.active_model = model_name
                   THEN NextActive(DictDel(self.connectors, model_name))
                   ELSE self.active_model],
     ret |-> TRUE]

\* ModelManager.set_api_key: the manager after the call and the value returned
set_api_key(self, model_name, api_key) ==
    IF api_key # ""
    THEN StoreKey(self, model_name, DictPut(self.api_keys, model_name, api_key),
                  create_connector(model_name, api_key))
    ELSE ClearKey(self, model_name, DictPut(self.api_keys, model_name, api_key))

\* set_active_model without the check of line 81
set_active_model_unchecked(self, model_name) ==
    [self |-> [self EXCEPT !.active_model = model_name], ret |-> TRUE]

\* ModelManager.set_active_model
set_active_model(self, model_name) ==
    IF DictHas(self.connectors, model_name)
    THEN [self |-> [self EXCEPT !.active_model = model_name], ret |-> TRUE]
    ELSE [self |-> self, ret |-> FALSE]

\* lines 132-141 with the defaults written over what the connector supplied
Enriched_overwrite(result, model_to_use) ==
    ("model" :> model_to_use) @@ ("code" :> <<"// No code generated">>)
        @@ ("explanation" :> <<"No explanation provided">>) @@ result

\* result[key] = value unless key is in result
SetDefault(result, key, value) ==
    IF key \in DOMAIN result THEN result ELSE result @@ (key :> value)

\* generate_code, lines 132-141: the model and the defaults are added
Enriched(result, model_to_use) ==
    SetDefault(SetDefault(("model" :> model_to_use) @@ result,
                          "code", <<"// No code generated">>),
               "explanation", <<"No explanation provided">>)

\* generate_code, the try block: call is how connector.generate_code ended
Delegated(call, model_to_use) ==
    [result |->
        IF call.out.raised
        THEN [error |-> <<"Failed to generate code: ", call.out.exc>>]
        \* result["model"] = ... on a str or a list: TypeError
        ELSE IF call.out.value.type # "dict"
        THEN [error |-> <<"Failed to generate code: ", "TypeError">>]
        ELSE Enriched(call.out.value.d, model_to_use),
     raised |-> FALSE, target |-> model_to_use, called |-> TRUE,
     conn |-> [raised |-> call.out.raised, exc |-> call.out.exc,
               value |-> IF call.out.raised THEN <<>> ELSE call.out.value.d],
     sent |-> call.sent]

\* generate_code falling back on the active provider when the provider to
\* use has no connector
GenerateWith_fallback(self, prompt, model_to_use, reply) ==
    IF model_to_use = None \/ model_to_use = ""
    THEN [result |-> [error |-> <<"No active model set">>], raised |-> FALSE,
          target |-> model_to_use, called |-> FALSE, conn |-> NotCalled,
          sent |-> <<>>]
    ELSE IF ~DictHas(self.connectors, model_to_use) /\ self.active_model = None
    THEN [result |-> [error |-> <<"Model ", model_to_use, " not available">>],
          raised |-> FALSE, target |-> model_to_use, called |-> FALSE,
          conn |-> NotCalled, sent |-> <<>>]
    ELSE IF ~DictHas(self.connectors, model_to_use)
    THEN Delegated(connector_generate_code(
                       DictGet(self.connectors, self.active_model), prompt, reply),
                   model_to_use)
    ELSE Delegated(connector_generate_code(DictGet(self.connectors, model_to_use),
                                           prompt, reply),
                   model_to_use)

\* generate_code once the provider to use is known
GenerateWith(self, prompt, model_to_use, reply) ==
    IF model_to_use = None \/ model_to_use = ""
    THEN [result |-> [error |-> <<"No active model set">>], raised |-> FALSE,
          target |-> model_to_use, called |-> FALSE, conn |-> NotCalled,
          sent |-> <<>>]
    ELSE IF ~DictHas(self.connectors, model_to_use)
    THEN [result |-> [error |-> <<"Model ", model_to_use, " not available">>],
          raised |-> FALSE, target |-> model_to_use, called |-> FALSE,
          conn |-> NotCalled, sent |-> <<>>]
    ELSE Delegated(connector_generate_code(DictGet(self.connectors, model_to_use),
                                           prompt, reply),
                   model_to_use)

\* line 117 with the active provider taking precedence
ModelToUse_active(self, model_name) ==
    IF self.active_model # None THEN self.active_model ELSE model_name

\* model_name if model_name else self.active_model
ModelToUse(self, model_name) ==
    IF model_name # None /\ model_name # "" THEN model_name
    ELSE self.active_model

\* ModelManager.generate_code; model_name is None when the caller names no
\* provider. result: the dict returned; raised: an exception left the method;
\* called / conn: whether a connector was called and how that call ended;
\* sent: the HTTP requests issued.
generate_code(self, prompt, model_name, reply) ==
    GenerateWith(self, prompt, ModelToUse(self, model_name), reply)

\* the code the four code-taking capabilities are called with
SomeCode == <<"a", ";">>

DocPrompt(code) ==
    <<"Generate comprehensive documentation for the following code:">> \o code
TestPrompt(code) ==
    <<"Generate comprehensive test cases for the following code:">> \o code
FixPrompt(code, error_message) ==
    <<"Fix the bugs in the following code that is producing this error:",
      error_message>> \o code
OptPrompt(code, optimization_goal) ==
    <<"Optimize the following code for ", optimization_goal>> \o code

generate_documentation(self, code, model_name, reply) ==
    generate_code(self, DocPrompt(code), model_name, reply)

generate_tests(self, code, model_name, reply) ==
    generate_code(self, TestPrompt(code), model_name, reply)

fix_bugs(self, code, error_message, model_name, reply) ==
    generate_code(self, FixPrompt(code, error_message), model_name, reply)

optimize_code(self, code, optimization_goal, model_name, reply) ==
    generate_code(self, OptPrompt(code, optimization_goal), model_name, reply)

Capabilities ==
    {"generate_code", "generate_documentation", "generate_tests", "fix_bugs",
     "optimize_code"}

\* the capability operation named op
Capability(op, self, model_name, reply) ==
    CASE op = "generate_code" -> generate_code(self, <<"a">>, model_name, reply)
      [] op = "generate_documentation" ->
            generate_documentation(self, SomeCode, model_name, reply)
      [] op = "generate_tests" -> generate_tests(self, SomeCode, model_name, reply)
      [] op = "fix_bugs" -> fix_bugs(self, SomeCode, "E", model_name, reply)
      [] op = "optimize_code" ->
            optimize_code(self, SomeCode, "performance", model_name, reply)

\* ModelManager.save_api_keys: file is what the path holds before the call.
\* os.makedirs(os.path.dirname(file_path)) raises for a path without a
\* directory part, and the call then returns False without writing.
save_api_keys(self, file_path, file) ==
    IF file_path.dirname = "" THEN [file |-> file, ret |-> FALSE]
    ELSE [file |-> [exists |-> TRUE, is_dict |-> TRUE, entries |-> self.api_keys],
          ret |-> TRUE]

\* load_api_keys with the file's object assigned to api_keys as it is
load_api_keys_assign(self, file) ==
    IF ~file.exists THEN [self |-> self, ret |-> FALSE]
    ELSE IF ~file.is_dict THEN [self |-> self, ret |-> FALSE]
    ELSE [self |-> [self EXCEPT !.api_keys = file.entries], ret |-> TRUE]

\* the loop of load_api_keys: set_api_key for each entry, in file order
RECURSIVE LoadEntries(_, _)
LoadEntries(self, entries) ==
    IF entries = <<>> THEN self
    ELSE LoadEntries(set_api_key(self, Head(entries).k, Head(entries).v).self,
                     Tail(entries))

\* ModelManager.load_api_keys; file.exists: the path exists; file.is_dict: it
\* holds a JSON object, whose entries are file.entries
load_api_keys(self, file) ==
    IF ~file.exists THEN [self |-> self, ret |-> FALSE]
    ELSE IF ~file.is_dict THEN [self |-> self, ret |-> FALSE]
    ELSE [self |-> LoadEntries(self, file.entries), ret |-> TRUE]

\* key files of at most MaxFile entries, a missing file, a file of another shape
FileEntries == {[k |-> m, v |-> key] : m \in SessionModels, key \in SessionKeys}

KeyFiles ==
    {[exists |-> TRUE, is_dict |-> TRUE, entries |-> f] :
        f \in {g \in UNION {[1..n -> FileEntries] : n \in 0..MaxFile} :
                 \A i, j \in DOMAIN g : i # j => g[i].k # g[j].k}}
    \cup {[exists |-> FALSE, is_dict |-> FALSE, entries |-> <<>>],
          [exists |-> TRUE, is_dict |-> FALSE, entries |-> <<>>]}

(* ---------------------------- AIIntegration --------------------------- *)

\* ai_integration.py. AI_MODELS maps each provider id to an inner dict; the
\* inner dicts are objects, numbered 1..5, and model_dicts holds the api_key
\* entry of each (the other entries are never assigned). A dict of dicts is a
\* function from provider ids to object numbers.

AI_MODELS ==
    [m \in KnownModels |->
        CASE m = "model1" -> 1 [] m = "model2" -> 2 [] m = "model3" -> 3
          [] m = "model4" -> 4 [] m = "model5" -> 5]

\* "api_key": None in each entry of the table
InnerDicts == [o \in 1..5 |-> None]

\* dict.copy(): a new outer dict holding the same inner objects
ShallowCopy(d) == [k \in DOMAIN d |-> d[k]]

\* keys given to AIIntegration: None is falsy like the empty key
IntegrationKeys == {"", "k1"}
IntegrationModels == {"model1", "model2", UnknownModel}

Falsy(api_key) == api_key = None \/ api_key = ""

\* the api_keys argument of the constructor: None, or a dict of one entry
ConstructorKeys ==
    {<<>>} \cup {<<[k |-> m, v |-> key]>> : m \in IntegrationModels,
                                            key \in IntegrationKeys}

\* the loop of lines 88-91 on the inner dicts
RECURSIVE InitKeys(_, _, _)
InitKeys(dicts, models, entries) ==
    IF entries = <<>> THEN dicts
    ELSE InitKeys(IF Head(entries).k \in DOMAIN models
                  THEN [dicts EXCEPT ![models[Head(entries).k]] = Head(entries).v]
                  ELSE dicts,
                  models, Tail(entries))

\* AIIntegration.__init__: the object, and the inner dicts after the call
AIIntegration(dicts, keys) ==
    [self |-> [models |-> ShallowCopy(AI_MODELS)],
     dicts |-> InitKeys(dicts, ShallowCopy(AI_MODELS), keys)]

\* AIIntegration.set_api_key
AIIntegration_set_api_key(dicts, self, model_name, api_key) ==
    IF model_name \notin DOMAIN self.models
    THEN [dicts |-> dicts, ret |-> FALSE]
    ELSE [dicts |-> [dicts EXCEPT ![self.models[model_name]] = api_key],
          ret |-> TRUE]

\* what a capability call did: the provider calls it made, and its result
Outcome(invoked, result) == [invoked |-> invoked, result |-> result]

\* _call_model<n>_api with a code-mode reply that lacks the explanation
call_model_api_partial(model_name, mode) ==
    Outcome(<<[api |-> model_name, mode |-> mode]>>,
            IF mode = "code"
            THEN [code |-> <<"// Generated code using ", model_name>>]
            ELSE [content |-> <<"This is a sample response from the API of ",
                                model_name>>])

\* _call_model1_api .. _call_model5_api: the simulated reply of each mode
call_model_api(model_name, mode) ==
    Outcome(<<[api |-> model_name, mode |-> mode]>>,
            IF mode = "code"
            THEN [code |-> <<"// Generated code using ", model_name>>,
                  explanation |-> <<"This code implements a basic solution based on your requirements.">>]
            ELSE [content |-> <<"This is a sample response from the API of ",
                                model_name>>])

\* the if/elif chain over model1..model5 of generate_code and its siblings
Dispatch(model_name, mode) ==
    IF model_name \in {"model1", "model2", "model3", "model4", "model5"}
    THEN call_model_api(model_name, mode)
    ELSE Outcome(<<>>, [error |-> <<"API integration not implemented for ",
                                    model_name>>])

\* the chain of optimize_code, lines 356-367: it compares with names that are
\* no provider ids and would call methods the class does not have
OptimizeDispatch(model_name) ==
    IF model_name \in {"deepseek", "gemini", "chatgpt", "grok", "claude"}
    THEN Outcome(<<>>, [error |-> <<"Failed to optimize code: ", "AttributeError">>])
    ELSE Outcome(<<>>, [error |-> <<"API integration not implemented for ",
                                    model_name>>])

\* the two checks each capability operation starts with
Checked(dicts, self, model_name, dispatched) ==
    IF model_name \notin DOMAIN self.models
    THEN Outcome(<<>>, [error |-> <<"Unknown model: ", model_name>>])
    ELSE IF Falsy(dicts[self.models[model_name]])
    THEN Outcome(<<>>, [error |-> <<"No API key provided for ", model_name>>])
    ELSE dispatched

AIIntegration_generate_code(dicts, self, model_name) ==
    Checked(dicts, self, model_name, Dispatch(model_name, "code"))

AIIntegration_generate_documentation(dicts, self, model_name) ==
    Checked(dicts, self, model_name, Dispatch(model_name, "chat"))

AIIntegration_generate_tests(dicts, self, model_name) ==
    Checked(dicts, self, model_name, Dispatch(model_name, "code"))

AIIntegration_fix_bugs(dicts, self, model_name) ==
    Checked(dicts, self, model_name, Dispatch(model_name, "code"))

AIIntegration_optimize_code(dicts, self, model_name) ==
    Checked(dicts, self, model_name, OptimizeDispatch(model_name))

IntegrationCapability(op, dicts, self, model_name) ==
    CASE op = "generate_code" -> AIIntegration_generate_code(dicts, self, model_name)
      [] op = "generate_documentation" ->
            AIIntegration_generate_documentation(dicts, self, model_name)
      [] op = "generate_tests" -> AIIntegration_generate_tests(dicts, self, model_name)
      [] op = "fix_bugs" -> AIIntegration_fix_bugs(dicts, self, model_name)
      [] op = "optimize_code" -> AIIntegration_optimize_code(dicts, self, model_name)

\* no call of AIIntegration has been made
NoIntegrationCall ==
    [op |-> "", inst |-> 0, model_name |-> None, api_key |-> None, ret |-> TRUE,
     out |-> Outcome(<<>>, <<>>)]

(* --------------------------- the session ------------------------------ *)

Manager ==
    [api_keys |-> api_keys, connectors |-> connectors,
     active_model |-> active_model]

\* the call made by the last step, what it returned, and what held before it:
\* the active provider, and whether the provider named had a connector
Call(op, model_name, api_key, ret, out) ==
    [op |-> op, model_name |-> model_name, api_key |-> api_key, ret |-> ret,
     out |-> out,
     before |-> [active_model |-> active_model,
                 had |-> DictHas(connectors, model_name)]]

NoOut ==
    [result |-> <<>>, raised |-> FALSE, target |-> None, called |-> FALSE,
     conn |-> NotCalled, sent |-> <<>>]

\* no text has been through the extraction
NotExtracted == [code |-> <<"not extracted">>, explanation |-> <<"not extracted">>]

\* the path of the key file, and a path without a directory part
KeyFilePath == [dirname |-> "data", name |-> "api_keys.json"]
BarePath == [dirname |-> "", name |-> "api_keys.json"]

\* the key file does not exist; no manager has written it
NothingSaved ==
    [file |-> [exists |-> FALSE, is_dict |-> FALSE, entries |-> <<>>],
     by |-> NewManager]

\* no call is under way on either thread
NoThreads ==
    [setter |-> [pc |-> "idle", model_name |-> None, api_key |-> ""],
     caller |-> [pc |-> "idle", model_name |-> None, model_to_use |-> None,
                 result |-> <<>>]]

\* no connector has been called on its own
NoExchange ==
    [self |-> [cls |-> None, api_key |-> "",
               base_url |-> [host |-> "", path |-> <<>>]],
     reply |-> Reply("", "", FALSE, "", <<>>), out |-> NotCalled, sent |-> <<>>]

InitSession ==
    /\ api_keys = <<>>
    /\ connectors = <<>>
    /\ active_model = None
    /\ last = [op |-> "__init__", model_name |-> None, api_key |-> "",
               ret |-> TRUE, out |-> NoOut,
               before |-> [active_model |-> None, had |-> FALSE]]
    /\ heap = 0
    /\ made = <<>>
    /\ exchange = NoExchange
    /\ saved = NothingSaved
    /\ threads = NoThreads
    /\ model_dicts = InnerDicts
    /\ integrations = <<>>
    /\ ai_last = NoIntegrationCall

Init ==
    /\ InitSession
    /\ response_text = <<>>
    /\ extracted = NotExtracted

Becomes(m) ==
    /\ api_keys' = m.api_keys
    /\ connectors' = m.connectors
    /\ active_model' = m.active_model

SetApiKey(models, keys) ==
    \E model_name \in models, api_key \in keys :
        /\ Becomes(set_api_key(Manager, model_name, api_key).self)
        /\ last' = Call("set_api_key", model_name, api_key,
                        set_api_key(Manager, model_name, api_key).ret, NoOut)
        /\ UNCHANGED <<heap, made, response_text, extracted, exchange, saved,
                   threads, front>>

SetActiveModel(models) ==
    \E model_name \in models :
        /\ Becomes(set_active_model(Manager, model_name).self)
        /\ last' = Call("set_active_model", model_name, "",
                        set_active_model(Manager, model_name).ret, NoOut)
        /\ UNCHANGED <<heap, made, response_text, extracted, exchange, saved,
                   threads, front>>

LoadApiKeys ==
    \E file \in KeyFiles :
        /\ Becomes(load_api_keys(Manager, file).self)
        /\ last' = Call("load_api_keys", None, "",
                        load_api_keys(Manager, file).ret, NoOut)
        /\ UNCHANGED <<heap, made, response_text, extracted, exchange, saved,
                   threads, front>>

\* a capability call that makes the provider it resolved to the active one
CapabilityCall_activates ==
    \E op \in Capabilities, model_name \in SessionModels \cup {None},
       reply \in SessionReplies :
        /\ last' = Call(op, model_name, "", TRUE,
                        Capability(op, Manager, model_name, reply))
        /\ active_model' =
             IF Capability(op, Manager, model_name, reply).called
             THEN Capability(op, Manager, model_name, reply).target
             ELSE active_model
        /\ UNCHANGED <<api_keys, connectors, heap, made,
                       response_text, extracted, exchange, saved, threads, front>>

CapabilityCall ==
    \E op \in Capabilities, model_name \in SessionModels \cup {None},
       reply \in SessionReplies :
        /\ last' = Call(op, model_name, "", TRUE,
                        Capability(op, Manager, model_name, reply))
        /\ UNCHANGED <<api_keys, connectors, active_model, heap, made,
                       response_text, extracted, exchange, saved,
                   threads, front>>

\* a session of every kind of call
Next ==
    \/ SetApiKey(SessionModels, SessionKeys)
    \/ SetActiveModel(SessionModels)
    \/ LoadApiKeys
    \/ CapabilityCall

Spec == Init /\ [][Next]_vars

\* a session of key and activation calls over more providers
NextKeys ==
    \/ SetApiKey(KeyModels, ApiKeys)
    \/ SetActiveModel(KeyModels)

SpecKeys == Init /\ [][NextKeys]_vars

(* ----------------------- the factory on its own ----------------------- *)

\* made: the calls of create_connector so far, with what each returned

FactoryCreate ==
    \E model_name \in AllModels, api_key \in ApiKeys :
        LET c == create_connector(model_name, api_key)
        IN /\ Len(made) < MaxMade
           /\ made' = Append(made, [model_name |-> model_name,
                                    api_key |-> api_key, out |-> c])
           /\ heap' = IF c.raised THEN heap ELSE heap + 1
           /\ UNCHANGED <<api_keys, connectors, active_model, last,
                          response_text, extracted, exchange, saved,
                   threads, front>>

NextFactory == FactoryCreate

SpecFactory == Init /\ [][NextFactory]_vars

(* ------------------------- keys kept in a file ------------------------ *)

\* saved: the key file at KeyFilePath, and the manager as it was when it
\* wrote the file

SaveApiKeys ==
    \E file_path \in {KeyFilePath, BarePath} :
        /\ saved' = IF save_api_keys(Manager, file_path, saved.file).ret
                     THEN [file |-> save_api_keys(Manager, file_path, saved.file).file,
                           by |-> Manager]
                     ELSE saved
        /\ last' = Call("save_api_keys", None, "",
                        save_api_keys(Manager, file_path, saved.file).ret, NoOut)
        /\ UNCHANGED <<api_keys, connectors, active_model, heap, made,
                       response_text, extracted, exchange, threads, front>>

\* the session's manager loads the key file
LoadSaved ==
    /\ Becomes(load_api_keys(Manager, saved.file).self)
    /\ last' = Call("load_api_keys", None, "",
                    load_api_keys(Manager, saved.file).ret, NoOut)
    /\ UNCHANGED <<heap, made, response_text, extracted, exchange, saved,
                   threads, front>>

\* a new session: ModelManager() and load_api_keys of the key file
Restart ==
    /\ Becomes(load_api_keys(NewManager, saved.file).self)
    /\ last' = Call("ModelManager().load_api_keys", None, "",
                    load_api_keys(NewManager, saved.file).ret, NoOut)
    /\ UNCHANGED <<heap, made, response_text, extracted, exchange, saved,
                   threads, front>>

NextFiles ==
    \/ SetApiKey(SessionModels, ApiKeys)
    \/ SaveApiKeys
    \/ LoadSaved
    \/ Restart

SpecFiles == Init /\ [][NextFiles]_vars

(* ------------------- one manager used by two threads ----------------- *)

\* threads: two threads call methods of the same ModelManager, which holds no
\* lock. The setter thread calls set_api_key and set_active_model, the caller
\* thread generate_code. A step is one statement; pc is the line to run next.

Setter(pc, model_name, api_key) ==
    [threads EXCEPT !.setter = [pc |-> pc, model_name |-> model_name,
                                api_key |-> api_key]]

Caller(pc, model_to_use, result) ==
    [threads EXCEPT !.caller = [pc |-> pc, model_name |-> threads.caller.model_name,
                                model_to_use |-> model_to_use, result |-> result]]

ElseUnchanged ==
    UNCHANGED <<last, heap, made, response_text, extracted, exchange, saved, front>>

SetterCallsSetApiKey ==
    \E model_name \in SessionModels, api_key \in SessionKeys :
        /\ threads.setter.pc = "idle"
        /\ threads' = Setter("42", model_name, api_key)
        /\ UNCHANGED <<api_keys, connectors, active_model>>
        /\ ElseUnchanged

SetterCallsSetActiveModel ==
    \E model_name \in SessionModels :
        /\ threads.setter.pc = "idle"
        /\ threads' = Setter("81", model_name, "")
        /\ UNCHANGED <<api_keys, connectors, active_model>>
        /\ ElseUnchanged

\* self.api_keys[model_name] = api_key; if api_key:
SetterLine42 ==
    /\ threads.setter.pc = "42"
    /\ api_keys' = DictPut(api_keys, threads.setter.model_name,
                           threads.setter.api_key)
    /\ threads' = Setter(IF threads.setter.api_key # "" THEN "46" ELSE "57",
                         threads.setter.model_name, threads.setter.api_key)
    /\ UNCHANGED <<connectors, active_model>>
    /\ ElseUnchanged

\* self.connectors[model_name] = create_connector(...), or except: return False
SetterLine46 ==
    /\ threads.setter.pc = "46"
    /\ IF create_connector(threads.setter.model_name, threads.setter.api_key).raised
       THEN /\ threads' = Setter("idle", None, "")
            /\ UNCHANGED connectors
       ELSE /\ connectors' =
                 DictPut(connectors, threads.setter.model_name,
                         Held(create_connector(threads.setter.model_name,
                                               threads.setter.api_key).value))
            /\ threads' = Setter("50", threads.setter.model_name,
                                 threads.setter.api_key)
    /\ UNCHANGED <<api_keys, active_model>>
    /\ ElseUnchanged

\* if self.active_model is None: self.active_model = model_name; return True
SetterLine50 ==
    /\ threads.setter.pc = "50"
    /\ active_model' = IF active_model = None THEN threads.setter.model_name
                        ELSE active_model
    /\ threads' = Setter("idle", None, "")
    /\ UNCHANGED <<api_keys, connectors>>
    /\ ElseUnchanged

\* if model_name in self.connectors: del self.connectors[model_name]
SetterLine57 ==
    /\ threads.setter.pc = "57"
    /\ connectors' = DictDel(connectors, threads.setter.model_name)
    /\ threads' = Setter("62", threads.setter.model_name, threads.setter.api_key)
    /\ UNCHANGED <<api_keys, active_model>>
    /\ ElseUnchanged

\* if self.active_model == model_name: self.active_model = ...; return True
SetterLine62 ==
    /\ threads.setter.pc = "62"
    /\ active_model' = IF active_model = threads.setter.model_name
                        THEN NextActive(connectors) ELSE active_model
    /\ threads' = Setter("idle", None, "")
    /\ UNCHANGED <<api_keys, connectors>>
    /\ ElseUnchanged

\* set_active_model: if model_name in self.connectors:, else return False
SetterLine81 ==
    /\ threads.setter.pc = "81"
    /\ threads' = IF DictHas(connectors, threads.setter.model_name)
                   THEN Setter("82", threads.setter.model_name, "")
                   ELSE Setter("idle", None, "")
    /\ UNCHANGED <<api_keys, connectors, active_model>>
    /\ ElseUnchanged

\* self.active_model = model_name; return True
SetterLine82 ==
    /\ threads.setter.pc = "82"
    /\ active_model' = threads.setter.model_name
    /\ threads' = Setter("idle", None, "")
    /\ UNCHANGED <<api_keys, connectors>>
    /\ ElseUnchanged

\* generate_code(prompt, model_name) is called
CallerCalls ==
    \E model_name \in SessionModels \cup {None} :
        /\ threads.caller.pc = "idle"
        /\ threads' = [threads EXCEPT !.caller =
                          [pc |-> "117", model_name |-> model_name,
                           model_to_use |-> None, result |-> <<>>]]
        /\ UNCHANGED <<api_keys, connectors, active_model>>
        /\ ElseUnchanged

\* model_to_use = model_name if model_name else self.active_model
CallerLine117 ==
    /\ threads.caller.pc = "117"
    /\ threads' = Caller("119", ModelToUse(Manager, threads.caller.model_name), <<>>)
    /\ UNCHANGED <<api_keys, connectors, active_model>>
    /\ ElseUnchanged

\* if not model_to_use: return {"error": "No active model set"}
CallerLine119 ==
    /\ threads.caller.pc = "119"
    /\ threads' = IF threads.caller.model_to_use = None
                   THEN Caller("idle", None, <<"No active model set">>)
                   ELSE Caller("123", threads.caller.model_to_use, <<>>)
    /\ UNCHANGED <<api_keys, connectors, active_model>>
    /\ ElseUnchanged

\* if model_to_use not in self.connectors: return {"error": ...}
CallerLine123 ==
    /\ threads.caller.pc = "123"
    /\ threads' = IF ~DictHas(connectors, threads.caller.model_to_use)
                   THEN Caller("idle", threads.caller.model_to_use,
                               <<"Model ", threads.caller.model_to_use,
                                 " not available">>)
                   ELSE Caller("129", threads.caller.model_to_use, <<>>)
    /\ UNCHANGED <<api_keys, connectors, active_model>>
    /\ ElseUnchanged

\* connector = self.connectors[model_to_use], a KeyError going to the except
\* branch of line 143; then the connector's call and the return
CallerLine129 ==
    /\ threads.caller.pc = "129"
    /\ threads' = IF ~DictHas(connectors, threads.caller.model_to_use)
                   THEN Caller("idle", threads.caller.model_to_use,
                               <<"Failed to generate code: ", "KeyError">>)
                   ELSE Caller("idle", threads.caller.model_to_use,
                               <<"result of ", threads.caller.model_to_use>>)
    /\ UNCHANGED <<api_keys, connectors, active_model>>
    /\ ElseUnchanged

NextThreads ==
    \/ SetterCallsSetApiKey
    \/ SetterCallsSetActiveModel
    \/ SetterLine42
    \/ SetterLine46
    \/ SetterLine50
    \/ SetterLine57
    \/ SetterLine62
    \/ SetterLine81
    \/ SetterLine82
    \/ CallerCalls
    \/ CallerLine117
    \/ CallerLine119
    \/ CallerLine123
    \/ CallerLine129

SpecThreads == Init /\ [][NextThreads]_vars

(* ----------------------- the AIIntegration front-end ------------------ *)

\* model_dicts: the api_key of each inner dict of AI_MODELS.
\* integrations: the AIIntegration objects constructed so far.
\* ai_last: the last call on one of them: the operation, the object, the
\* arguments, the value returned and what a capability call did.

IntegrationElse ==
    UNCHANGED <<api_keys, connectors, active_model, last, heap, made,
                response_text, extracted, exchange, saved, threads>>

NewIntegration ==
    \E keys \in ConstructorKeys :
        /\ Len(integrations) < MaxInstances
        /\ integrations' = Append(integrations, AIIntegration(model_dicts, keys).self)
        /\ model_dicts' = AIIntegration(model_dicts, keys).dicts
        /\ ai_last' = [op |-> "__init__", inst |-> Len(integrations) + 1,
                       model_name |-> IF keys = <<>> THEN None ELSE keys[1].k,
                       api_key |-> IF keys = <<>> THEN None ELSE keys[1].v,
                       ret |-> TRUE, out |-> Outcome(<<>>, <<>>)]
        /\ IntegrationElse

IntegrationSetApiKey ==
    \E inst \in DOMAIN integrations, model_name \in IntegrationModels,
       api_key \in IntegrationKeys :
        /\ model_dicts' = AIIntegration_set_api_key(
                              model_dicts, integrations[inst], model_name,
                              api_key).dicts
        /\ ai_last' = [op |-> "set_api_key", inst |-> inst,
                       model_name |-> model_name, api_key |-> api_key,
                       ret |-> AIIntegration_set_api_key(
                                   model_dicts, integrations[inst], model_name,
                                   api_key).ret,
                       out |-> Outcome(<<>>, <<>>)]
        /\ UNCHANGED integrations
        /\ IntegrationElse

IntegrationCapabilityCall ==
    \E inst \in DOMAIN integrations, op \in Capabilities,
       model_name \in IntegrationModels :
        /\ ai_last' = [op |-> op, inst |-> inst, model_name |-> model_name,
                       api_key |-> None, ret |-> TRUE,
                       out |-> IntegrationCapability(op, model_dicts,
                                                     integrations[inst], model_name)]
        /\ UNCHANGED <<model_dicts, integrations>>
        /\ IntegrationElse

NextIntegration ==
    \/ NewIntegration
    \/ IntegrationSetApiKey
    \/ IntegrationCapabilityCall

SpecIntegration == Init /\ [][NextIntegration]_vars

(* ----------------------- a connector on its own ---------------------- *)

\* exchange: the last call of a connector's generate_code made directly: the
\* connector, the provider's reply, the requests sent and the outcome

ConnectorCall ==
    \E model_name \in KnownModels, api_key \in ApiKeys \ {""}, reply \in Replies :
        /\ exchange' =
             [self |-> Held(create_connector(model_name, api_key).value),
              reply |-> reply,
              out |-> connector_generate_code(
                          Held(create_connector(model_name, api_key).value),
                          SomeCode, reply).out,
              sent |-> connector_generate_code(
                           Held(create_connector(model_name, api_key).value),
                           SomeCode, reply).sent]
        /\ UNCHANGED <<api_keys, connectors, active_model, last, heap, made,
                       response_text, extracted, saved, threads, front>>

NextConnector == ConnectorCall

SpecConnector == Init /\ [][NextConnector]_vars

(* ---------------------- the extraction on its own -------------------- *)

\* response_text: the text of a provider's reply, as the parts it is built
\* of: prose, and fenced blocks of a language tag and an interior.
\* extracted: what lines 119-138 make of it.

\* prose without a fence: words, line ends, inline code in single backticks
ProseTexts == {<<"a">>, <<"a", "\n">>, <<"\n", "a">>, <<BT, "a", BT>>}

\* language tags: none, a word
Tags == {<<>>, <<"j">>}

\* interiors: one line, lines with outer blanks, an empty line
Interiors == {<<"a">>, <<" ", "a", "\n", "a", " ">>, <<"\n">>}

Parts ==
    {[kind |-> "prose", tag |-> <<>>, body |-> b] : b \in ProseTexts}
    \cup {[kind |-> "block", tag |-> g, body |-> b] : g \in Tags, b \in Interiors}

Texts == UNION {[1..n -> Parts] : n \in 0..MaxParts}

\* the characters of a part: a block is opener, tag, line end, interior,
\* line end, closer
RenderPart(p) ==
    IF p.kind = "prose" THEN p.body
    ELSE <<BT, BT, BT>> \o p.tag \o <<"\n">> \o p.body \o <<"\n", BT, BT, BT>>

RECURSIVE Render(_)
Render(parts) ==
    IF parts = <<>> THEN <<>>
    ELSE RenderPart(Head(parts)) \o Render(Tail(parts))

InitExtract ==
    /\ InitSession
    /\ response_text \in Texts
    /\ extracted = NotExtracted

\* lines 119-138 of generate_code on the text of the reply
Extract ==
    /\ extracted = NotExtracted
    /\ extracted' = ExtractCode(Render(response_text))
    /\ UNCHANGED <<api_keys, connectors, active_model, last, heap, made,
                   response_text, exchange, saved,
                   threads, front>>

NextExtract == Extract

SpecExtract == InitExtract /\ [][NextExtract]_vars

(* ------------------------------- claims ------------------------------- *)

IsCapabilityCall(c) == c.op \in Capabilities

\* the provider a capability call made in the current state resolves to
Resolved(model_name) ==
    IF model_name # None THEN model_name ELSE active_model

NoActiveError == [error |-> <<"No active model set">>]
NotAvailableError(m) == [error |-> <<"Model ", m, " not available">>]

\* C1: in every state a session reaches by set_api_key, set_active_model,
\* load_api_keys and capability calls, active_model is None or a key of
\* connectors.
C1_ActiveIsConnector ==
    active_model = None \/ DictHas(connectors, active_model)

\* C1 witness: the key of the active provider was cleared while another
\* provider had a connector, and some provider is active afterwards.
C1_Witness ==
    /\ last.op = "set_api_key" /\ last.api_key = ""
    /\ last.before.had /\ last.before.active_model = last.model_name
    /\ active_model # None

\* C2: when set_api_key(m, "") is called and m is the active provider,
\* active_model becomes the first remaining key of connectors in insertion
\* order, or None when no connector remains.
C2_ClearMovesToFirst ==
    [][(last'.op = "set_api_key" /\ last'.api_key = ""
        /\ last'.model_name = active_model)
       => /\ connectors' = SelectSeq(connectors, LAMBDA e : e.k # active_model)
          /\ active_model' = IF connectors' = <<>> THEN None
                             ELSE connectors'[1].k]_vars

\* C2 witness: the active provider's key was cleared with two connectors
\* remaining, and the one stored first is active.
C2_Witness ==
    /\ last.op = "set_api_key" /\ last.api_key = ""
    /\ last.before.had /\ last.before.active_model = last.model_name
    /\ Len(connectors) = 2
    /\ active_model = connectors[1].k

\* C3: set_api_key(m, k) with a non-empty key for a known provider stores a
\* connector for m holding k, and makes m active exactly when no provider
\* was active; an active provider stays active.
C3_StoreAdoptsIfNone ==
    [][(last'.op = "set_api_key" /\ last'.api_key # ""
        /\ last'.model_name \in KnownModels)
       => /\ DictHas(connectors', last'.model_name)
          /\ DictGet(connectors', last'.model_name).api_key = last'.api_key
          /\ active_model' = IF active_model = None THEN last'.model_name
                             ELSE active_model]_vars

\* C3 witness: a key was set for a provider while another provider was
\* active, and that other provider is still active.
C3_Witness ==
    /\ last.op = "set_api_key" /\ last.api_key # ""
    /\ DictHas(connectors, last.model_name)
    /\ last.before.active_model \notin {None, last.model_name}
    /\ active_model = last.before.active_model

\* C4: set_active_model(m) returns True and makes m active exactly when a
\* connector for m exists; otherwise it returns False and leaves
\* active_model, connectors and api_keys unchanged.
C4_SetActiveChecked ==
    [][last'.op = "set_active_model"
       => IF DictHas(connectors, last'.model_name)
          THEN /\ last'.ret = TRUE
               /\ active_model' = last'.model_name
               /\ UNCHANGED <<connectors, api_keys>>
          ELSE /\ last'.ret = FALSE
               /\ UNCHANGED <<active_model, connectors, api_keys>>]_vars

\* C4 witness: set_active_model succeeded for a provider with a connector
\* while another provider was active, and the provider named is active now.
C4_Witness ==
    /\ last.op = "set_active_model" /\ last.ret = TRUE
    /\ last.before.had
    /\ last.before.active_model \notin {None, last.model_name}
    /\ active_model = last.model_name

\* C5: each capability operation targets the provider named, else the active
\* one; it returns the no-active-model error when there is neither, the
\* model-not-available error when the target has no connector, and otherwise
\* calls the target's connector, which posts to that provider's host.
C5_CapabilityResolves ==
    [][IsCapabilityCall(last')
       => /\ last'.out.target = Resolved(last'.model_name)
          /\ Resolved(last'.model_name) = None
                => /\ last'.out.result = NoActiveError
                   /\ ~last'.out.called
          /\ (Resolved(last'.model_name) # None
              /\ ~DictHas(connectors, Resolved(last'.model_name)))
                => /\ last'.out.result = NotAvailableError(Resolved(last'.model_name))
                   /\ ~last'.out.called
          /\ (Resolved(last'.model_name) # None
              /\ DictHas(connectors, Resolved(last'.model_name)))
                => /\ last'.out.called
                   /\ Len(last'.out.sent) = 1
                   /\ last'.out.sent[1].url.host =
                        DictGet(connectors, Resolved(last'.model_name)).base_url.host]_vars

\* C5 witness: fix_bugs named a provider other than the active one and that
\* provider's connector was called.
C5_Witness ==
    /\ last.op = "fix_bugs"
    /\ last.model_name \notin {None, active_model}
    /\ active_model # None
    /\ last.out.called

\* what generate_code(model_name = id) returns in the current state, for
\* every reply the provider could give
RefusedNow(id) ==
    \A reply \in SessionReplies :
        /\ generate_code(Manager, <<"a">>, id, reply).result = NotAvailableError(id)
        /\ ~generate_code(Manager, <<"a">>, id, reply).called

\* C6: after set_api_key(id, "") no connector exists for id, and as long as
\* id has no connector generate_code(model_name = id) returns the
\* model-not-available error.
C6_ClearedIsRefused ==
    /\ (last.op = "set_api_key" /\ last.api_key = "")
          => ~DictHas(connectors, last.model_name)
    /\ \A id \in SessionModels : ~DictHas(connectors, id) => RefusedNow(id)

\* C6 witness: the key of a provider that had a connector was cleared while
\* another provider stays active.
C6_Witness ==
    /\ last.op = "set_api_key" /\ last.api_key = ""
    /\ last.before.had
    /\ active_model # None
    /\ RefusedNow(last.model_name)

\* C7: a capability call that names a provider without a connector (an id
\* outside the closed set included), or that is made with no provider active
\* and none named, returns an error and issues no HTTP request.
C7_NoRequestWithoutConnector ==
    [][(/\ IsCapabilityCall(last')
        /\ \/ Resolved(last'.model_name) = None
           \/ ~DictHas(connectors, Resolved(last'.model_name)))
       => /\ "error" \in DOMAIN last'.out.result
          /\ last'.out.sent = <<>>]_vars

\* C7 witness: a capability call named the provider outside the closed set
\* while a provider was active.
C7_Witness ==
    /\ IsCapabilityCall(last)
    /\ last.model_name = UnknownModel
    /\ active_model # None
    /\ last.out.sent = <<>>

\* C8: a result of a capability operation without an error field holds code
\* and explanation, as the connector supplied them or else the defaults, and
\* a model field naming the provider the call resolved to.
C8_SuccessIsComplete ==
    (IsCapabilityCall(last) /\ "error" \notin DOMAIN last.out.result)
    => /\ {"code", "explanation", "model"} \subseteq DOMAIN last.out.result
       /\ last.out.result.model = Resolved(last.model_name)
       /\ last.out.result.code =
            IF "code" \in DOMAIN last.out.conn.value
            THEN last.out.conn.value.code ELSE <<"// No code generated">>
       /\ last.out.result.explanation =
            IF "explanation" \in DOMAIN last.out.conn.value
            THEN last.out.conn.value.explanation
            ELSE <<"No explanation provided">>

\* C8 witness: a call without a provider named returned the code of the
\* fenced block of the reply.
C8_Witness ==
    /\ IsCapabilityCall(last)
    /\ last.model_name = None
    /\ "error" \notin DOMAIN last.out.result
    /\ last.out.result.code = <<"a", ";">>

\* C9: a failure inside a provider call never leaves the connector's
\* generate_code or a capability operation as an exception; the call returns
\* a result carrying an error field.
C9_NoExceptionEscapes ==
    IsCapabilityCall(last)
    => /\ ~last.out.raised
       /\ ~last.out.conn.raised

\* the class create_connector is to build for each provider
VariantOf(model_name) ==
    CASE model_name = "model1" -> "DeepSeekConnector"
      [] model_name = "model2" -> "GeminiConnector"
      [] model_name = "model3" -> "OpenAIConnector"
      [] model_name = "model4" -> "GrokConnector"
      [] model_name = "model5" -> "ClaudeConnector"

\* C10: for each of the five providers and every key, create_connector
\* returns a connector of the provider's class holding that key, and every
\* call builds a new object.
C10_FactoryRoundTrip ==
    /\ \A i \in DOMAIN made :
          made[i].model_name \in KnownModels
          => /\ ~made[i].out.raised
             /\ made[i].out.value.cls = VariantOf(made[i].model_name)
             /\ made[i].out.value.api_key = made[i].api_key
    /\ \A i, j \in DOMAIN made :
          (i # j /\ ~made[i].out.raised /\ ~made[j].out.raised)
          => made[i].out.value.oid # made[j].out.value.oid

\* C10 witness: create_connector was called twice for model5 with the same
\* key and returned two objects.
C10_Witness ==
    /\ Len(made) = 2
    /\ made[1].model_name = "model5" /\ made[2].model_name = "model5"
    /\ made[1].api_key = "k2" /\ made[2].api_key = "k2"
    /\ made[1].out.value.oid # made[2].out.value.oid

\* C11: create_connector fails for every provider id outside the closed set,
\* so set_api_key with such an id and a key reports failure, and no connector
\* is ever stored under an id outside the closed set, whether the key came
\* from set_api_key or from a key file.
C11_UnknownNeverStored ==
    /\ DictKeys(connectors) \subseteq KnownModels
    /\ (last.op = "set_api_key" /\ last.model_name \notin KnownModels
          /\ last.api_key # "")
       => last.ret = FALSE

\* C11 witness: set_api_key with a key for the id outside the closed set
\* failed while another provider held a connector.
C11_Witness ==
    /\ last.op = "set_api_key"
    /\ last.model_name = UnknownModel
    /\ last.api_key = "k1"
    /\ last.ret = FALSE
    /\ connectors # <<>>
    /\ ~DictHas(connectors, UnknownModel)

\* the fenced blocks among the parts of a text, and the text without part i
Blocks(parts) == {i \in DOMAIN parts : parts[i].kind = "block"}

Without(parts, i) == SubSeq(parts, 1, i - 1) \o SubSeq(parts, i + 1, Len(parts))

IsProse(p) == p.kind = "prose"

\* C12: for a text without a fenced block the extraction returns the whole
\* text as code and the value of line 124, "No explanation found in the
\* response", as explanation.
C12_NoFenceSentinel ==
    (extracted # NotExtracted /\ Blocks(response_text) = {})
    => /\ extracted.code = Render(response_text)
       /\ extracted.explanation = NoExplanationFound

C15_OnlyFirstRemoved ==
    (extracted # NotExtracted /\ Blocks(response_text) # {})
    => extracted.explanation =
         Strip(Render(Without(response_text, MinOf(Blocks(response_text)))))

\* C15 as amended: when a fenced block is found, the explanation is the text
\* with every fenced block removed, stripped; only the prose remains.
C15_EveryBlockRemoved ==
    (extracted # NotExtracted /\ Blocks(response_text) # {})
    => extracted.explanation = Strip(Render(SelectSeq(response_text, IsProse)))

\* C15 witness: two blocks around prose; the explanation is the prose.
C15_Witness ==
    /\ Cardinality(Blocks(response_text)) = 2
    /\ Len(response_text) = 3
    /\ response_text[2] = [kind |-> "prose", tag |-> <<>>, body |-> <<"\n", "a">>]
    /\ extracted.explanation = <<"a">>

\* the provider answered 2xx with a body without an error entry that the
\* path to the text cannot be followed through
Unnavigable(x) ==
    /\ x.self.cls # None
    /\ x.reply.net = "ok"
    /\ x.reply.type = "dict"
    /\ ~x.reply.has_error
    /\ x.reply.shape \in {"missing", "empty", "wrongtype"}

RECURSIVE Replay(_, _)
Replay(self, entries) ==
    IF entries = <<>> THEN self
    ELSE set_api_key(Replay(self, SubSeq(entries, 1, Len(entries) - 1)),
                     entries[Len(entries)].k, entries[Len(entries)].v).self

IsLoad(c) == c.op \in {"load_api_keys", "ModelManager().load_api_keys"}

\* C17: load_api_keys leaves the manager in the state that set_api_key for
\* each entry of the file, in file order, leads to; and when a new manager
\* loads a file written by save_api_keys, the providers with a connector in
\* it are those that had a connector in the manager that wrote the file.
C17_LoadReplaysKeys ==
    [][/\ (last'.op = "load_api_keys" /\ last'.ret)
          => Manager' = Replay(Manager, saved.file.entries)
       /\ (last'.op = "ModelManager().load_api_keys" /\ last'.ret)
          => /\ Manager' = Replay(NewManager, saved.file.entries)
             /\ DictKeys(connectors') = DictKeys(saved.by.connectors)
       /\ (IsLoad(last') /\ ~last'.ret) => ~saved.file.exists]_vars

\* C17 witness: a new manager loaded a file holding a key, an empty key and a
\* key for the id outside the closed set, written by a manager with a
\* connector, while that manager's connectors were ordered otherwise.
C17_Witness ==
    /\ last.op = "ModelManager().load_api_keys"
    /\ last.ret
    /\ Len(saved.file.entries) = 3
    /\ \E i \in DOMAIN saved.file.entries : saved.file.entries[i].v = ""
    /\ \E i \in DOMAIN saved.file.entries :
          saved.file.entries[i].k = UnknownModel /\ saved.file.entries[i].v # ""
    /\ connectors # <<>>
    /\ DictKeys(connectors) = DictKeys(saved.by.connectors)

\* api_keys holds at most one entry for each provider
OneEntryEach(d) == \A i, j \in DOMAIN d : d[i].k = d[j].k => i = j

\* C18 as claimed: the credential map holds at most one entry for each
\* provider; set_api_key with a key overwrites the entry, and set_api_key with
\* the empty key removes it, so that neither the map nor a file written by
\* save_api_keys afterwards holds an entry for the provider.
C18_ClearedKeyRemoved ==
    /\ OneEntryEach(api_keys)
    /\ (last.op = "set_api_key" /\ last.api_key # "" /\ last.ret)
       => DictGet(api_keys, last.model_name) = last.api_key
    /\ (last.op = "set_api_key" /\ last.api_key = "")
       => ~DictHas(api_keys, last.model_name)
    /\ \A i \in DOMAIN saved.file.entries : saved.file.entries[i].v # ""

\* C18 as amended: the credential map holds at most one entry for each
\* provider; set_api_key overwrites the entry with the key given, the empty
\* key included: after set_api_key with the empty key the entry is still
\* there, holding the empty string, the connector is gone, and a file written
\* by save_api_keys holds the map as it is, empty entries included.
C18_ClearedKeyKept ==
    /\ OneEntryEach(api_keys)
    /\ last.op = "set_api_key"
       => /\ DictHas(api_keys, last.model_name)
          /\ DictGet(api_keys, last.model_name) = last.api_key
    /\ (last.op = "set_api_key" /\ last.api_key = "")
       => ~DictHas(connectors, last.model_name)
    /\ (last.op = "save_api_keys" /\ last.ret) => saved.file.entries = api_keys
    /\ OneEntryEach(saved.file.entries)

\* C18 witness: a key was set, then cleared, and the file written afterwards
\* holds the provider with an empty key.
C18_Witness ==
    /\ last.op = "save_api_keys"
    /\ last.ret
    /\ \E i \in DOMAIN saved.file.entries :
          /\ saved.file.entries[i].k = "model1"
          /\ saved.file.entries[i].v = ""
    /\ ~DictHas(connectors, "model1")

\* C19: in every state a connector exists for a provider exactly when the key
\* stored for it is not empty, and the connector holds the stored key.
C19_ConnectorIffKey ==
    \A m \in AllModels :
        /\ DictHas(connectors, m)
           <=> (DictHas(api_keys, m) /\ DictGet(api_keys, m) # "")
        /\ DictHas(connectors, m)
           => DictGet(connectors, m).api_key = DictGet(api_keys, m)

\* C20: the operations on the session state exclude each other: while one
\* thread is in set_api_key or set_active_model, the thread about to resolve
\* its provider (line 117) never finds active_model naming a provider without
\* a connector, and the thread that passed the check of line 123 still finds
\* the connector at the lookup of line 129.
C20_MutuallyExclusive ==
    /\ (threads.caller.pc = "117" /\ active_model # None)
       => DictHas(connectors, active_model)
    /\ threads.caller.pc = "129"
       => DictHas(connectors, threads.caller.model_to_use)

\* C21: a capability call that reaches a connector sends exactly one request,
\* a POST, whether the request fails, times out or is answered; a call that
\* reaches no connector sends none.
C21_OnePostPerCall ==
    IsCapabilityCall(last)
    => IF last.out.called
       THEN /\ Len(last.out.sent) = 1
            /\ last.out.sent[1].method = "POST"
       ELSE last.out.sent = <<>>

\* C21 witness: the request of a capability call timed out, the call returned
\* the error, and one request had been sent.
C21_Witness ==
    /\ IsCapabilityCall(last)
    /\ last.out.called
    /\ "error" \in DOMAIN last.out.conn.value
    /\ last.out.conn.value.error = <<"Timeout">>
    /\ Len(last.out.sent) = 1

\* C22: the URL a connector requests is its base URL followed by the path of
\* the endpoint: the path of the URL starts with every segment of the base
\* URL's path, the version segment included, and goes on with the endpoint.
C22_UrlKeepsBasePath ==
    exchange.sent # <<>>
    => /\ exchange.sent[1].url.host = exchange.self.base_url.host
       /\ exchange.sent[1].url.path =
            exchange.self.base_url.path \o Endpoint(exchange.self)

\* C23: set_api_key returns True for each of the five providers whatever the
\* key, empty or not, and returns False exactly when the key is not empty and
\* the id is outside the closed set, where building the connector raises.
C23_FailsOnlyOnConstruction ==
    last.op = "set_api_key"
    => (last.ret = FALSE
        <=> (last.api_key # "" /\ last.model_name \notin KnownModels))

\* C23 witness: the empty key for a provider without a connector was accepted.
C23_Witness ==
    /\ last.op = "set_api_key"
    /\ last.model_name = "model3"
    /\ last.api_key = ""
    /\ ~last.before.had
    /\ last.ret = TRUE

\* C27: in every state active_model is None exactly when there is no
\* connector.
C27_ActiveIffConnectors ==
    active_model = None <=> connectors = <<>>

\* C27 witness: the key of the active provider was cleared while another
\* provider had a connector, and a provider is active.
C27_Witness ==
    /\ last.op = "set_api_key"
    /\ last.api_key = ""
    /\ last.before.active_model = last.model_name
    /\ connectors # <<>>
    /\ active_model # None

\* C28: a capability operation, whether it succeeds or fails and whether or
\* not it names a provider, leaves api_keys, connectors and active_model as
\* they were.
C28_CapabilityKeepsState ==
    [][IsCapabilityCall(last')
       => UNCHANGED <<api_keys, connectors, active_model>>]_vars

\* C28 witness: a call named a provider with a connector that is not the
\* active one and got a result; the active provider is as before.
C28_Witness ==
    /\ IsCapabilityCall(last)
    /\ last.model_name \notin {None, active_model}
    /\ last.out.called
    /\ "error" \notin DOMAIN last.out.result
    /\ active_model = last.before.active_model

\* C29: when set_api_key returns False, api_keys, connectors and active_model
\* are as before the call.
C29_FailureKeepsState ==
    [][(last'.op = "set_api_key" /\ ~last'.ret)
       => UNCHANGED <<api_keys, connectors, active_model>>]_vars

\* the first entry of a key file that leads to a connector: a key that is not
\* empty, for one of the five providers
Usable(entries) ==
    {i \in DOMAIN entries : entries[i].v # "" /\ entries[i].k \in KnownModels}

\* C30 as claimed: after a new manager loaded a file written by
\* save_api_keys, its active provider is the one that was active in the
\* manager that wrote the file.
C30_ActiveSurvivesReload ==
    (last.op = "ModelManager().load_api_keys" /\ last.ret)
    => active_model = saved.by.active_model

\* C30 as amended: after a new manager loaded a file written by
\* save_api_keys, its active provider is the first provider of the file, in
\* the order of the writer's api_keys, with a key that is not empty and an id
\* of the closed set, and None when the file holds no such entry.
C30_ActiveIsFirstUsable ==
    (last.op = "ModelManager().load_api_keys" /\ last.ret)
    => active_model =
         IF Usable(saved.file.entries) = {} THEN None
         ELSE saved.file.entries[MinOf(Usable(saved.file.entries))].k

\* C30 witness: the writer had model2 active and model1 first in its keys; the
\* new manager has model1 active.
C30_Witness ==
    /\ last.op = "ModelManager().load_api_keys"
    /\ last.ret
    /\ saved.by.active_model = "model2"
    /\ DictKeys(saved.by.connectors) = {"model1", "model2"}
    /\ active_model = "model1"


\* the last call was a capability call of an AIIntegration object
IsIntegrationCapability(c) == c.op \in Capabilities

\* the mode the claim gives each operation of AIIntegration
ClaimedMode(op) ==
    IF op \in {"generate_code", "fix_bugs", "optimize_code"} THEN "code" ELSE "chat"

\* the call passed both checks: a provider id of the table with a key set
ReachesProvider(c) ==
    /\ IsIntegrationCapability(c)
    /\ c.model_name \in DOMAIN integrations[c.inst].models
    /\ ~Falsy(model_dicts[integrations[c.inst].models[c.model_name]])

\* C24: a capability call of AIIntegration that passes the checks invokes
\* the provider call of its model once, in mode "code" for generate_code,
\* fix_bugs and optimize_code and in mode "chat" for generate_documentation
\* and generate_tests.
C24_ModeOfOperation ==
    ReachesProvider(ai_last) =>
        ai_last.out.invoked =
            <<[api |-> ai_last.model_name, mode |-> ClaimedMode(ai_last.op)]>>

\* C25: the inner dicts of AI_MODELS keep "api_key": None for ever, and an
\* object constructed without keys has no key for any provider, whatever was
\* set on the objects constructed before it.
C25_TableNeverMutated ==
    /\ \A m \in DOMAIN AI_MODELS : model_dicts[AI_MODELS[m]] = None
    /\ (ai_last.op = "__init__" /\ ai_last.api_key = None) =>
           \A m \in DOMAIN integrations[ai_last.inst].models :
               model_dicts[integrations[ai_last.inst].models[m]] = None

====
